---- MODULE Spec2Model ----
(***************************************************************************)
(* tdaemon: the Watcher polls a directory tree once a second, compares the *)
(* modification times it finds with the ones it stored, and runs the test  *)
(* command whenever they differ.  The model follows src/tdaemon.py:        *)
(* the ignore pattern of Watcher.__init__, Watcher.walk (full and quick    *)
(* scan), Watcher.diff_list, the hot_top cache of Watcher.loop,            *)
(* Watcher.run_tests, and main: the construction of the Watcher and the    *)
(* interrupt handler.                                                      *)
(* The filesystem is the environment: files are created, modified and      *)
(* deleted at any moment, also between two system calls of a scan.         *)
(***************************************************************************)
EXTENDS Integers, Sequences, FiniteSets, TLC

VARIABLES fs, file_list, new_file_list, hot_top, hot_top_limit, iteration,
          quick, todo, cur, changed, new, cmd, run_arg, pc,
          runs_in_tick, ticks, muts, touched, mut_prev, clean, feed,
          ignore, names, root_isdir, exit_code, gone

vars == <<fs, file_list, new_file_list, hot_top, hot_top_limit, iteration,
          quick, todo, cur, changed, new, cmd, run_arg, pc,
          runs_in_tick, ticks, muts, touched, mut_prev, clean, feed,
          ignore, names, root_isdir, exit_code, gone>>

(***************************************************************************)
(* fs             the tree: path -> modification time, for the files that  *)
(*                exist                                                    *)
(* file_list      self.file_list, the stored snapshot                      *)
(* new_file_list  the dict walk() builds, then loop's new_file_list        *)
(* hot_top        self.hot_top: path -> number of counted changes          *)
(* hot_top_limit  self.hot_top_limit                                       *)
(* iteration      loop's counter                                           *)
(* quick          the argument of the running walk()                       *)
(* todo           the names walk() has still to visit                      *)
(* cur            {name} between isfile(name) and getmtime(name), else {}  *)
(* changed, new   the lists diff_list returned                             *)
(* cmd            self.cmd                                                 *)
(* ignore         self.ignore: the rules the compiled pattern is made of   *)
(* names          the tree's layout: path -> its directories and its name  *)
(* root_isdir     os.path.isdir(file_path)                                 *)
(* exit_code      {} while the process runs, then {its exit status}        *)
(* run_arg        the command subprocess.call is running, or NoCmd         *)
(* pc             where the process is                                     *)
(* History, read by the properties only:                                   *)
(* runs_in_tick   Runner invocations since the tick's scan began           *)
(* ticks          scans begun by the loop                                  *)
(* muts           filesystem mutations so far                              *)
(* touched        paths mutated since the last scan of the loop began      *)
(* mut_prev       the tree was mutated between the two last scan starts    *)
(* clean          the tree has not been mutated since the last full scan   *)
(*                of an ended tick began (or since __init__)               *)
(* gone           paths created or deleted since the last scan began       *)
(* feed           the paths the recording specification changes in turn    *)
(***************************************************************************)

----------------------------------------------------------------------------
(* Bounds of the model *)

\* files that may exist under the watched root in the loop's specification
MaxFiles == 2
\* modification times a file may take
MaxMtime == 2
\* ticks the loop is followed for (more than one full-rescan period)
MaxIter == 31
\* filesystem mutations the environment performs in one behaviour
MaxMut == 2
\* ticks during which the environment performs them: the first full scan
\* and the quick scans after it (later ticks scan a tree at rest, the full
\* scan of iteration 30 included)
MutTicks == 2
\* paths of the hot-cache specification (more than hot_top_limit)
HotPaths == 22
\* length of the change sequences of the recording specification
SeqLen == 5
\* paths the change sequences are made of
SeqPaths == 3

Files == 1..MaxFiles
Mtimes == 1..MaxMtime

\* "no command": no Runner invocation is in progress
NoCmd == <<>>

----------------------------------------------------------------------------
(* Program constants *)

\* self.hot_top_limit = 20
HotTopLimit == 20
\* self.walk(quick=iteration % 30)
FullScanEvery == 30

----------------------------------------------------------------------------
(* Dictionaries: a dict is a function from its key set *)

EmptyDict == <<>>

\* d[k] = v
Put(d, k, v) == [q \in DOMAIN d \cup {k} |-> IF q = k THEN v ELSE d[q]]

\* d.pop(k, None)
Pop(d, k) == [q \in DOMAIN d \ {k} |-> d[q]]

\* the dict restricted to the keys of S
Restrict(d, S) == [q \in S |-> d[q]]

\* the elements of a list
Range(s) == {s[i] : i \in DOMAIN s}

\* one iteration order of a dict's keys (the order is the dict's own)
RECURSIVE KeyOrder(_)
KeyOrder(S) ==
    IF S = {} THEN <<>>
    ELSE LET k == CHOOSE k \in S : TRUE IN <<k>> \o KeyOrder(S \ {k})

----------------------------------------------------------------------------
(* Watcher.get_cmd *)

\* IMPLEMENTED_TEST_PROGRAMS
IMPLEMENTED_TEST_PROGRAMS ==
    {"nose", "nosetests", "django", "py", "symfony", "jelix"}

\* the test programs the model starts the watcher with
TestPrograms == {"nose"}

\* self.file_path, the default of main
file_path == "."

\* get_cmd with no custom arguments; a command line is the tuple of its
\* words.  manage_py is os.path.exists("<file_path>/manage.py").
GetCmd(test_program, manage_py) ==
    CASE test_program \in {"nose", "nosetests"} -> <<"nosetests", file_path>>
      [] test_program = "django" ->
            IF manage_py THEN <<"python", file_path, "manage.py", "test">>
                         ELSE <<"django-admin.py", "test">>
      [] test_program = "py" -> <<"py.test", file_path>>
      [] test_program = "symfony" -> <<"symfony", "test-all">>
      [] test_program = "jelix" -> <<"php", "tests.php">>

----------------------------------------------------------------------------
(* Watcher.loop: the choice of the scan mode and the comparison *)

QuickModeEvery20(i) == (i % 20) # 0

\* quick=iteration % 30: the scan is quick unless the remainder is 0
QuickMode(i) == (i % FullScanEvery) # 0

SnapshotsDifferKeysOnly(a, b) == DOMAIN a # DOMAIN b

SnapshotsDifferNoDeletion(a, b) ==
    \E k \in DOMAIN a : IF k \in DOMAIN b THEN b[k] # a[k] ELSE TRUE

\* new_file_list != self.file_list: dict inequality
SnapshotsDiffer(a, b) ==
    IF DOMAIN a # DOMAIN b THEN TRUE ELSE \E k \in DOMAIN a : a[k] # b[k]

----------------------------------------------------------------------------
(* Watcher.diff_list *)

DiffListSwapped(list1, list2) ==
    LET keys == KeyOrder(DOMAIN list2)
        IsChanged(k) == k \in DOMAIN list1 /\ list1[k] # list2[k]
        IsNew(k) == ~IsChanged(k) /\ k \notin DOMAIN list1
    IN  <<SelectSeq(keys, IsChanged), SelectSeq(keys, IsNew)>>

\* the pair <<changed, new>>: the keys of list1 in list1's iteration order,
\* appended to changed when list2 holds another value for them, to new
\* when list2 does not hold them
DiffList(list1, list2) ==
    LET keys == KeyOrder(DOMAIN list1)
        IsChanged(k) == k \in DOMAIN list2 /\ list2[k] # list1[k]
        IsNew(k) == ~IsChanged(k) /\ k \notin DOMAIN list2
    IN  <<SelectSeq(keys, IsChanged), SelectSeq(keys, IsNew)>>

----------------------------------------------------------------------------
(* Watcher.loop: the hot_top cache *)

IncrementFromOne(hot, k) ==
    Put(hot, k, (IF k \in DOMAIN hot THEN hot[k] ELSE 1) + 1)

IncrementTwice(hot, k) ==
    Put(hot, k, (IF k \in DOMAIN hot THEN hot[k] ELSE 0) + 2)

\* self.hot_top[filename] += 1 on a defaultdict(int)
Increment(hot, k) ==
    Put(hot, k, (IF k \in DOMAIN hot THEN hot[k] ELSE 0) + 1)

\* for filename in changed + new: self.hot_top[filename] += 1
RECURSIVE IncrementAll(_, _)
IncrementAll(hot, list) ==
    IF list = <<>> THEN hot
    ELSE IncrementAll(Increment(hot, Head(list)), Tail(list))

\* the keys of S with the smallest count
Lowest(hot, S) == {k \in S : \A q \in S : hot[k] <= hot[q]}

\* the keys of S with the greatest count
Highest(hot, S) == {k \in S : \A q \in S : hot[k] >= hot[q]}

\* the sets of n keys that can end a descending stable sort of hot's
\* items: equal counts keep the dict's iteration order, which is arbitrary
RECURSIVE SortedTail(_, _, _)
SortedTail(hot, S, n) ==
    IF n <= 0 \/ S = {} THEN {{}}
    ELSE UNION {{T \cup {k} : T \in SortedTail(hot, S \ {k}, n - 1)} :
                k \in Lowest(hot, S)}

\* the sets of n keys that can begin a descending stable sort
RECURSIVE SortedHead(_, _, _)
SortedHead(hot, S, n) ==
    IF n <= 0 \/ S = {} THEN {{}}
    ELSE UNION {{T \cup {k} : T \in SortedHead(hot, S \ {k}, n - 1)} :
                k \in Highest(hot, S)}

TopItemsOffByOne(hot, limit) ==
    {Restrict(hot, DOMAIN hot \ T) :
        T \in SortedTail(hot, DOMAIN hot, Cardinality(DOMAIN hot) - limit - 1)}

TopItemsAscending(hot, limit) ==
    {Restrict(hot, DOMAIN hot \ T) :
        T \in SortedHead(hot, DOMAIN hot, Cardinality(DOMAIN hot) - limit)}

\* defaultdict(int, sorted(hot.iteritems(), key=count, reverse=True)[:limit]):
\* every dict the slice can give.  The slice drops the last
\* len(hot) - limit items of the sorted list.
TopItems(hot, limit) ==
    {Restrict(hot, DOMAIN hot \ T) :
        T \in SortedTail(hot, DOMAIN hot, Cardinality(DOMAIN hot) - limit)}

\* lines 261-267: count the affected files, keep the top of the cache
HotTopRecord(hot, list, limit) == TopItems(IncrementAll(hot, list), limit)

----------------------------------------------------------------------------
(* The ignore pattern: fnmatch.translate, re.compile, search *)

\* the module's IGNORE tuple
IGNORE == <<".bzr", ".git", ".hg", ".darcs", ".svn", "*.pyc", "*.pyo", "*.swp">>

\* str.split(sep), for a separator of one character
RECURSIVE Split(_, _)
Split(str, sep) ==
    IF \E i \in 1..Len(str) : SubSeq(str, i, i) = sep
    THEN LET i == CHOOSE j \in 1..Len(str) :
                     /\ SubSeq(str, j, j) = sep
                     /\ \A k \in 1..(j - 1) : SubSeq(str, k, k) # sep
         IN <<SubSeq(str, 1, i - 1)>> \o Split(SubSeq(str, i + 1, Len(str)), sep)
    ELSE <<str>>

\* set(filter(None, self.ignore)): the empty rules are dropped, every other
\* line is a rule, whatever its first character
RuleSet(rules) == {rules[i] : i \in 1..Len(rules)} \ {""}

\* lines 83-97: IGNORE, then the items of the --ignore option when it is
\* not empty, then the lines of ./.gitignore when the file exists
\* (gitignore is <<>> or <<the file's text>>); the compiled pattern is the
\* alternation of the translated rules
CompileRules(option, gitignore) ==
    RuleSet(IGNORE
            \o (IF option = "" THEN <<>> ELSE Split(option, ","))
            \o (IF gitignore = <<>> THEN <<>> ELSE Split(gitignore[1], "\n")))

\* the regular expression fnmatch.translate(pat) makes, matched from the
\* first character of str: '*' is '.*', '?' is '.', any other character is
\* itself (re.escape), and the expression ends with \Z, the end of str.
\* (No rule of the model holds a '[', the one other character translate
\* treats specially.)
RECURSIVE TranslateMatch(_, _)
TranslateMatch(pat, str) ==
    IF pat = ""
    THEN str = ""
    ELSE LET c == SubSeq(pat, 1, 1)
             rest == SubSeq(pat, 2, Len(pat))
         IN  IF c = "*"
             THEN \E i \in 0..Len(str) :
                      TranslateMatch(rest, SubSeq(str, i + 1, Len(str)))
             ELSE IF str = ""
             THEN FALSE
             ELSE IF c = "?"
             THEN TranslateMatch(rest, SubSeq(str, 2, Len(str)))
             ELSE /\ c = SubSeq(str, 1, 1)
                  /\ TranslateMatch(rest, SubSeq(str, 2, Len(str)))

\* self.ignore.search(str) is not None: re.search tries every position of
\* str, the alternation tries every rule
IgnoreSearch(rules, str) ==
    \E r \in rules : \E i \in 0..Len(str) :
        TranslateMatch(r, SubSeq(str, i + 1, Len(str)))

\* os.path.join
Join(root, name) == IF root = "" THEN name ELSE root \o "/" \o name

RECURSIVE JoinAll(_)
JoinAll(dirs) ==
    IF Len(dirs) = 1 THEN dirs[1]
    ELSE Join(JoinAll(SubSeq(dirs, 1, Len(dirs) - 1)), dirs[Len(dirs)])

\* root = os.path.normpath(root) for the directory os.walk is in: the
\* watched root stays ".", "./sub" becomes "sub"
NormRoot(dirs) == IF dirs = <<>> THEN file_path ELSE JoinAll(dirs)

\* full_path = os.path.join(root, name)
FullPath(entry) == Join(NormRoot(entry.dirs), entry.name)

\* dirs[:] = [dir for dir in dirs if self.ignore.search(os.path.join(root,
\* dir)) is None]: the k-th directory on the way is taken out of the walk
DirPruned(dirs, k) ==
    IgnoreSearch(ignore, Join(NormRoot(SubSeq(dirs, 1, k - 1)), dirs[k]))

\* os.walk comes to the directory: none above it, nor itself, was pruned
Entered(dirs) == \A k \in 1..Len(dirs) : ~DirPruned(dirs, k)

\* if self.ignore.search(name) is None: the file is tested by its name
NameIgnored(p) == IgnoreSearch(ignore, names[p].name)

----------------------------------------------------------------------------
(* The trees of the model *)

Paths == DOMAIN names

Digit(n) == SubSeq("0123456789", n + 1, n + 1)

\* the n-th source file of the root directory
RootFile(n) ==
    [dirs |-> <<>>, name |-> "f" \o Digit(n \div 10) \o Digit(n % 10) \o ".py"]

\* the loop's tree: source files in the root directory
MainTree == [p \in Files |-> RootFile(p)]

\* a working copy: source files in the root, then a compiled file next to
\* them and a file of the version-control directory
CompiledFile == MaxFiles
HiddenFile == MaxFiles + 1

GitTree ==
    [p \in 1..HiddenFile |->
        IF p < CompiledFile THEN RootFile(p)
        ELSE IF p = CompiledFile THEN [dirs |-> <<>>, name |-> "f01.pyc"]
        ELSE [dirs |-> <<".git">>, name |-> "config"]]

----------------------------------------------------------------------------
(* The state after Watcher.__init__ and before loop() *)

\* the trees the watcher is started on: any of the files, each with the
\* first modification time
InitialTrees == UNION {[S -> {1}] : S \in SUBSET Files}

\* the dict a full walk returns on a tree at rest
WalkAll(tree) ==
    Restrict(tree, {p \in DOMAIN tree :
                        Entered(names[p].dirs) /\ ~NameIgnored(p)})

\* the loop's positions: sleeping, inside walk(), about to call run_tests(),
\* waiting in subprocess.call; and the two ends of the process
LoopStates == {"sleep", "walk", "run", "running"}

\* __init__: file_list is the first full walk of the tree, hot_top is an
\* empty defaultdict, hot_top_limit is 20, cmd is get_cmd()
Init ==
    /\ ignore = CompileRules("", <<>>)
    /\ names = MainTree
    /\ root_isdir = TRUE
    /\ exit_code = {}
    /\ gone = {}
    /\ fs \in InitialTrees
    /\ file_list = WalkAll(fs)
    /\ new_file_list = EmptyDict
    /\ hot_top = EmptyDict
    /\ hot_top_limit = HotTopLimit
    /\ iteration = 0
    /\ quick = FALSE
    /\ todo = {}
    /\ cur = {}
    /\ changed = <<>>
    /\ new = <<>>
    /\ cmd \in {GetCmd(t, FALSE) : t \in TestPrograms}
    /\ run_arg = NoCmd
    /\ pc = "sleep"
    /\ runs_in_tick = 0
    /\ ticks = 0
    /\ muts = 0
    /\ touched = {}
    /\ mut_prev = FALSE
    /\ clean = TRUE
    /\ feed = <<>>

\* what no step after the construction touches
config == <<hot_top_limit, cmd, feed, ignore, names, root_isdir>>

\* what no step of the loop or of the filesystem touches
harness == <<config, exit_code>>

----------------------------------------------------------------------------
(* The filesystem under the root, changed by other processes *)

fsFrame == <<file_list, new_file_list, hot_top, iteration, quick, todo, cur,
             changed, new, run_arg, pc, runs_in_tick, ticks, mut_prev,
             harness>>

Mutate(p, newfs) ==
    /\ pc \in LoopStates
    /\ muts < MaxMut
    /\ iteration < MutTicks
    /\ fs' = newfs
    /\ muts' = muts + 1
    /\ touched' = touched \cup {p}
    /\ gone' = IF p \in DOMAIN fs /\ p \in DOMAIN newfs THEN gone
                                                     ELSE gone \cup {p}
    /\ clean' = FALSE
    /\ UNCHANGED fsFrame

\* a file appears
CreateFile(p, m) == p \notin DOMAIN fs /\ Mutate(p, Put(fs, p, m))

\* a file is written: its modification time changes
ModifyFile(p, m) == p \in DOMAIN fs /\ m # fs[p] /\ Mutate(p, Put(fs, p, m))

\* a file disappears
DeleteFile(p) == p \in DOMAIN fs /\ Mutate(p, Pop(fs, p))

----------------------------------------------------------------------------
(* Watcher.walk *)

QuickMissKeep(list, filename) == list

\* quick scan, os.path.isfile(filename) is false: file_list.pop(filename, None)
QuickMiss(list, filename) == Pop(list, filename)

ListingNoPrune(tree) == DOMAIN tree

\* the names os.walk hands to the loop over files: the listings of the
\* directories it comes to
Listing(tree) == {p \in DOMAIN tree : Entered(names[p].dirs)}

WalkBeginKeepStored ==
    /\ pc = "sleep"
    /\ iteration < MaxIter
    /\ quick' = QuickMode(iteration)
    /\ new_file_list' = file_list
    /\ todo' = IF quick' THEN DOMAIN hot_top ELSE Listing(fs)
    /\ cur' = {}
    /\ pc' = "walk"
    /\ runs_in_tick' = 0
    /\ ticks' = ticks + 1
    /\ mut_prev' = (touched # {})
    /\ touched' = {}
    /\ gone' = {}
    /\ UNCHANGED <<fs, file_list, hot_top, iteration, changed, new, run_arg,
                   muts, clean, harness>>

\* sleep(1), then walk() starts: a quick scan copies self.file_list and goes
\* through the keys of hot_top, a full scan starts from an empty dict and
\* goes through the listing
WalkBegin ==
    /\ pc = "sleep"
    /\ iteration < MaxIter
    /\ quick' = QuickMode(iteration)
    /\ new_file_list' = IF quick' THEN file_list ELSE EmptyDict
    /\ todo' = IF quick' THEN DOMAIN hot_top ELSE Listing(fs)
    /\ cur' = {}
    /\ pc' = "walk"
    /\ runs_in_tick' = 0
    /\ ticks' = ticks + 1
    /\ mut_prev' = (touched # {})
    /\ touched' = {}
    /\ gone' = {}
    /\ UNCHANGED <<fs, file_list, hot_top, iteration, changed, new, run_arg,
                   muts, clean, harness>>

\* The full scan first tests the name against the ignore pattern and
\* skips a name that matches.  Then os.path.isfile on the name.  True: the
\* scan goes on to getmtime.  False: the quick scan drops the name from
\* its copy, the full scan leaves it out.
WalkIsFile(p) ==
    /\ pc = "walk"
    /\ cur = {}
    /\ p \in todo
    /\ todo' = todo \ {p}
    /\ IF ~quick /\ NameIgnored(p)
       THEN cur' = {} /\ UNCHANGED new_file_list
       ELSE IF p \in DOMAIN fs
       THEN cur' = {p} /\ UNCHANGED new_file_list
       ELSE /\ cur' = {}
            /\ new_file_list' = IF quick THEN QuickMiss(new_file_list, p)
                                         ELSE new_file_list
    /\ UNCHANGED <<fs, file_list, hot_top, iteration, quick, changed, new,
                   run_arg, pc, runs_in_tick, ticks, muts, touched, gone, mut_prev,
                   clean, harness>>

\* file_list[name] = os.path.getmtime(name)
WalkGetMtime ==
    /\ pc = "walk"
    /\ \E p \in cur :
          /\ p \in DOMAIN fs
          /\ new_file_list' = Put(new_file_list, p, fs[p])
    /\ cur' = {}
    /\ UNCHANGED <<fs, file_list, hot_top, iteration, quick, todo, changed,
                   new, run_arg, pc, runs_in_tick, ticks, muts, touched, gone,
                   mut_prev, clean, harness>>

\* os.path.getmtime on a name that is gone raises OSError; neither walk,
\* loop nor main catches it, the process ends with a traceback
WalkGetMtimeFails ==
    /\ pc = "walk"
    /\ \E p \in cur : p \notin DOMAIN fs
    /\ pc' = "crashed"
    /\ exit_code' = {1}
    /\ UNCHANGED <<fs, file_list, new_file_list, hot_top, iteration, quick,
                   todo, cur, changed, new, run_arg, runs_in_tick, ticks,
                   muts, touched, gone, mut_prev, clean, config>>

\* walk() has gone through every name and returns its dict
WalkDone == pc = "walk" /\ todo = {} /\ cur = {}

----------------------------------------------------------------------------
(* Watcher.loop *)

\* the end of a tick: iteration += 1.  A full scan that nothing disturbed
\* leaves the stored snapshot equal to the tree.
TickEnd ==
    /\ iteration' = iteration + 1
    /\ pc' = "sleep"
    /\ clean' = IF quick THEN clean ELSE (touched = {})

\* new_file_list == self.file_list: nothing to do
Unchanged ==
    /\ WalkDone
    /\ ~SnapshotsDiffer(new_file_list, file_list)
    /\ TickEnd
    /\ UNCHANGED <<fs, file_list, new_file_list, hot_top, quick, todo, cur,
                   changed, new, run_arg, runs_in_tick, ticks, muts, touched, gone,
                   mut_prev, harness>>

\* new_file_list != self.file_list: diff_list, then the hot_top update
Changed ==
    /\ WalkDone
    /\ SnapshotsDiffer(new_file_list, file_list)
    /\ changed' = DiffList(new_file_list, file_list)[1]
    /\ new' = DiffList(new_file_list, file_list)[2]
    /\ hot_top' \in HotTopRecord(hot_top, changed' \o new', hot_top_limit)
    /\ pc' = "run"
    /\ UNCHANGED <<fs, file_list, new_file_list, iteration, quick, todo, cur,
                   run_arg, runs_in_tick, ticks, muts, touched, gone, mut_prev,
                   clean, harness>>

RunTestsNoWait ==
    /\ pc = "run"
    /\ run_arg' = cmd
    /\ runs_in_tick' = runs_in_tick + 1
    /\ file_list' = new_file_list
    /\ TickEnd
    /\ UNCHANGED <<fs, new_file_list, hot_top, quick, todo, cur, changed, new,
                   ticks, muts, touched, gone, mut_prev, harness>>

RunTestsStoreFirst ==
    /\ pc = "run"
    /\ run_arg' = cmd
    /\ runs_in_tick' = runs_in_tick + 1
    /\ pc' = "running"
    /\ file_list' = new_file_list
    /\ UNCHANGED <<fs, new_file_list, hot_top, iteration, quick, todo,
                   cur, changed, new, ticks, muts, touched, gone, mut_prev, clean,
                   harness>>

\* self.run_tests(): run(self.cmd) starts the command with subprocess.call
RunTests ==
    /\ pc = "run"
    /\ run_arg' = cmd
    /\ runs_in_tick' = runs_in_tick + 1
    /\ pc' = "running"
    /\ UNCHANGED <<fs, file_list, new_file_list, hot_top, iteration, quick, todo,
                   cur, changed, new, ticks, muts, touched, gone, mut_prev, clean,
                   harness>>

\* subprocess.call returns; self.file_list = new_file_list; iteration += 1
RunnerReturns ==
    /\ pc = "running"
    /\ run_arg' = NoCmd
    /\ file_list' = new_file_list
    /\ TickEnd
    /\ UNCHANGED <<fs, new_file_list, hot_top, quick, todo, cur, changed, new,
                   runs_in_tick, ticks, muts, touched, gone, mut_prev, harness>>

----------------------------------------------------------------------------
(* main *)

\* the values of --test-program the model starts main with
StartPrograms == TestPrograms \cup {"unknown"}

\* before Watcher(...): no attribute is set yet.  The root may be missing
\* or not a directory, and then nothing lies under it.
InitMain ==
    /\ root_isdir \in BOOLEAN
    /\ names = MainTree
    /\ fs \in (IF root_isdir THEN InitialTrees ELSE {EmptyDict})
    /\ ignore = {}
    /\ exit_code = {}
    /\ gone = {}
    /\ file_list = EmptyDict
    /\ new_file_list = EmptyDict
    /\ hot_top = EmptyDict
    /\ hot_top_limit = 0
    /\ iteration = 0
    /\ quick = FALSE
    /\ todo = {}
    /\ cur = {}
    /\ changed = <<>>
    /\ new = <<>>
    /\ cmd = NoCmd
    /\ run_arg = NoCmd
    /\ pc = "start"
    /\ runs_in_tick = 0
    /\ ticks = 0
    /\ muts = 0
    /\ touched = {}
    /\ mut_prev = FALSE
    /\ clean = TRUE
    /\ feed = <<>>

StartupNoDirCheck(test_program, has_module) ==
    /\ pc = "start"
    /\ ignore' = CompileRules("", <<>>)
    /\ hot_top_limit' = HotTopLimit
    /\ UNCHANGED <<fs, names, root_isdir, feed, new_file_list, hot_top,
                   iteration, quick, todo, cur, changed, new, run_arg,
                   runs_in_tick, ticks, muts, touched, gone, mut_prev, clean>>
    /\ file_list' = WalkAll(fs)'
    /\ IF test_program \notin IMPLEMENTED_TEST_PROGRAMS
       THEN pc' = "crashed" /\ exit_code' = {1} /\ cmd' = NoCmd
       ELSE IF ~has_module
       THEN pc' = "exited" /\ exit_code' = {0} /\ cmd' = NoCmd
       ELSE /\ pc' = "sleep"
            /\ exit_code' = {}
            /\ cmd' = GetCmd(test_program, FALSE)

\* main calls Watcher(path, test_program, ...): __init__ compiles the ignore
\* pattern (no --ignore, no .gitignore), makes hot_top, walks the tree,
\* then check_configuration raises InvalidFilePath when the root is not a
\* directory and InvalidTestProgram for an unknown test program; main
\* catches neither and the interpreter ends with a traceback and status 1.
\* check_dependencies calls sys.exit(message) when the test program's
\* module cannot be imported: main catches SystemExit, prints "Bye" and
\* returns.  Else get_cmd() sets self.cmd and main enters loop().
Startup(test_program, has_module) ==
    /\ pc = "start"
    /\ ignore' = CompileRules("", <<>>)
    /\ hot_top_limit' = HotTopLimit
    /\ UNCHANGED <<fs, names, root_isdir, feed, new_file_list, hot_top,
                   iteration, quick, todo, cur, changed, new, run_arg,
                   runs_in_tick, ticks, muts, touched, gone, mut_prev, clean>>
    /\ file_list' = WalkAll(fs)'
    /\ IF ~root_isdir \/ test_program \notin IMPLEMENTED_TEST_PROGRAMS
       THEN pc' = "crashed" /\ exit_code' = {1} /\ cmd' = NoCmd
       ELSE IF ~has_module
       THEN pc' = "exited" /\ exit_code' = {0} /\ cmd' = NoCmd
       ELSE /\ pc' = "sleep"
            /\ exit_code' = {}
            /\ cmd' = GetCmd(test_program, FALSE)

\* Ctrl-C: main catches KeyboardInterrupt, prints "Bye" and returns
Interrupt ==
    /\ pc \in LoopStates
    /\ pc' = "exited"
    /\ exit_code' = {0}
    /\ UNCHANGED <<fs, file_list, new_file_list, hot_top, iteration, quick,
                   todo, cur, changed, new, run_arg, runs_in_tick, ticks,
                   muts, touched, gone, mut_prev, clean, config>>

----------------------------------------------------------------------------
(* The watcher with its filesystem *)

Next ==
    \/ \E p \in Paths, m \in Mtimes : CreateFile(p, m)
    \/ \E p \in Paths, m \in Mtimes : ModifyFile(p, m)
    \/ \E p \in Paths : DeleteFile(p)
    \/ WalkBegin
    \/ \E p \in Paths : WalkIsFile(p)
    \/ WalkGetMtime
    \/ WalkGetMtimeFails
    \/ Unchanged
    \/ Changed
    \/ RunTests
    \/ RunnerReturns

Spec == Init /\ [][Next]_vars

\* a step of the watcher's process
LoopStep ==
    \/ WalkBegin
    \/ \E p \in Paths : WalkIsFile(p)
    \/ WalkGetMtime
    \/ WalkGetMtimeFails
    \/ Unchanged
    \/ Changed
    \/ RunTests
    \/ RunnerReturns

\* the process is scheduled: sleep(1) and the system calls of a scan
\* return, and so does every Runner invocation (subprocess.call returns
\* when the test command ends)
SpecLive == Init /\ [][Next]_vars /\ WF_vars(LoopStep)

\* main from its start, with the operator's Ctrl-C
NextMain ==
    \/ \E t \in StartPrograms, m \in BOOLEAN : Startup(t, m)
    \/ Next
    \/ Interrupt

SpecMain == InitMain /\ [][NextMain]_vars

----------------------------------------------------------------------------
(* The watcher on a working copy: files the ignore pattern hides *)

\* as Init, on the working copy with all its files
InitTree ==
    /\ ignore = CompileRules("", <<>>)
    /\ names = GitTree
    /\ root_isdir = TRUE
    /\ exit_code = {}
    /\ gone = {}
    /\ fs = [p \in DOMAIN GitTree |-> 1]
    /\ file_list = WalkAll(fs)
    /\ new_file_list = EmptyDict
    /\ hot_top = EmptyDict
    /\ hot_top_limit = HotTopLimit
    /\ iteration = 0
    /\ quick = FALSE
    /\ todo = {}
    /\ cur = {}
    /\ changed = <<>>
    /\ new = <<>>
    /\ cmd \in {GetCmd(t, FALSE) : t \in TestPrograms}
    /\ run_arg = NoCmd
    /\ pc = "sleep"
    /\ runs_in_tick = 0
    /\ ticks = 0
    /\ muts = 0
    /\ touched = {}
    /\ mut_prev = FALSE
    /\ clean = TRUE
    /\ feed = <<>>

SpecTree == InitTree /\ [][Next]_vars

----------------------------------------------------------------------------
(* The watcher started with rules of its user, on a tree at rest *)

\* a root with two text files, a compiled file and a source file, and a
\* directory with a text file named as one of the root
MatchTree ==
    <<[dirs |-> <<>>, name |-> "root.txt"],
      [dirs |-> <<"sub">>, name |-> "root.txt"],
      [dirs |-> <<>>, name |-> "keep.pyc"],
      [dirs |-> <<>>, name |-> "a.py"],
      [dirs |-> <<>>, name |-> "notes.txt"]>>

\* values of the --ignore option
IgnoreOptions == {"", "*.txt", "*.txt,sub"}

\* no .gitignore in the working directory, or one with these lines
GitignoreFiles ==
    {<<>>, <<"">>, <<"/root.txt\n">>, <<"!keep.pyc\n">>,
     <<"/root.txt\n!keep.pyc\n">>, <<"*.txt\n!root.txt\n">>}

\* as Init, for each choice of the rules
InitMatch ==
    /\ \E option \in IgnoreOptions, gitignore \in GitignoreFiles :
          ignore = CompileRules(option, gitignore)
    /\ names = MatchTree
    /\ root_isdir = TRUE
    /\ exit_code = {}
    /\ gone = {}
    /\ fs = [p \in DOMAIN MatchTree |-> 1]
    /\ file_list = WalkAll(fs)
    /\ new_file_list = EmptyDict
    /\ hot_top = EmptyDict
    /\ hot_top_limit = HotTopLimit
    /\ iteration = 0
    /\ quick = FALSE
    /\ todo = {}
    /\ cur = {}
    /\ changed = <<>>
    /\ new = <<>>
    /\ cmd \in {GetCmd(t, FALSE) : t \in TestPrograms}
    /\ run_arg = NoCmd
    /\ pc = "sleep"
    /\ runs_in_tick = 0
    /\ ticks = 0
    /\ muts = 0
    /\ touched = {}
    /\ mut_prev = FALSE
    /\ clean = TRUE
    /\ feed = <<>>

\* nothing changes the tree: the scans run to their end and find the
\* stored snapshot again
NextMatch ==
    \/ WalkBegin
    \/ \E p \in Paths : WalkIsFile(p)
    \/ WalkGetMtime
    \/ Unchanged

SpecMatch == InitMatch /\ [][NextMatch]_vars

----------------------------------------------------------------------------
(* The hot_top update on a full cache: lines 255-267 applied to the states *)
(* a full scan can leave the loop in, with more paths than hot_top_limit   *)

HotFiles == 1..HotPaths

\* a cache of k paths whose counts follow one of three patterns
HotCacheOf(k, s) == [p \in 1..k |-> 1 + ((p * s) % 3)]

\* the same caches when every path has been counted once more
WarmCacheOf(k, s) == [p \in 1..k |-> 2 + ((p * s) % 3)]

\* the stored snapshot knows the paths 1..m; the scan found the paths a..b
\* with another modification time, or for the first time
InitHot ==
    /\ ignore = CompileRules("", <<>>)
    /\ names = [p \in HotFiles |-> RootFile(p)]
    /\ root_isdir = TRUE
    /\ exit_code = {}
    /\ gone = {}
    /\ \E k \in {HotTopLimit - 1, HotTopLimit}, s \in 0..2 :
          hot_top \in {HotCacheOf(k, s), WarmCacheOf(k, s)}
    /\ \E m \in {HotTopLimit, HotPaths - 1}, a \in HotFiles, b \in HotFiles :
          /\ a <= b
          /\ file_list = [p \in 1..m |-> 1]
          /\ new_file_list =
                [p \in (1..m) \cup (a..b) |-> IF p \in a..b THEN 2 ELSE 1]
    /\ fs = new_file_list
    /\ hot_top_limit = HotTopLimit
    /\ iteration = FullScanEvery
    /\ quick = FALSE
    /\ todo = {}
    /\ cur = {}
    /\ changed = <<>>
    /\ new = <<>>
    /\ cmd \in {GetCmd(t, FALSE) : t \in TestPrograms}
    /\ run_arg = NoCmd
    /\ pc = "walk"
    /\ runs_in_tick = 0
    /\ ticks = FullScanEvery + 1
    /\ muts = 0
    /\ touched = {}
    /\ mut_prev = FALSE
    /\ clean = FALSE
    /\ feed = <<>>

NextHot == Changed

SpecHot == InitHot /\ [][NextHot]_vars

----------------------------------------------------------------------------
(* The hot_top update, change after change: one path is recorded per tick *)

\* the cache starts empty; hot_top_limit, an attribute of the Watcher, is
\* 2 here and not the 20 of __init__, so that three paths overflow the
\* cache; feed is the sequence of the paths that change, iteration counts
\* the changes recorded so far
InitSeq ==
    /\ ignore = CompileRules("", <<>>)
    /\ names = [p \in 1..SeqPaths |-> RootFile(p)]
    /\ root_isdir = TRUE
    /\ exit_code = {}
    /\ gone = {}
    /\ feed \in [1..SeqLen -> 1..SeqPaths]
    /\ hot_top = EmptyDict
    /\ hot_top_limit = 2
    /\ iteration = 0
    /\ fs = EmptyDict
    /\ file_list = EmptyDict
    /\ new_file_list = EmptyDict
    /\ quick = FALSE
    /\ todo = {}
    /\ cur = {}
    /\ changed = <<>>
    /\ new = <<>>
    /\ cmd \in {GetCmd(t, FALSE) : t \in TestPrograms}
    /\ run_arg = NoCmd
    /\ pc = "record"
    /\ runs_in_tick = 0
    /\ ticks = 0
    /\ muts = 0
    /\ touched = {}
    /\ mut_prev = FALSE
    /\ clean = FALSE

\* lines 261-267 for a tick whose changed + new is the one path feed names
RecordStep ==
    /\ pc = "record"
    /\ iteration < Len(feed)
    /\ hot_top' \in HotTopRecord(hot_top, <<feed[iteration + 1]>>, hot_top_limit)
    /\ iteration' = iteration + 1
    /\ UNCHANGED <<fs, file_list, new_file_list, quick, todo, cur, changed,
                   new, run_arg, pc, runs_in_tick, ticks, muts, touched, gone,
                   mut_prev, clean, harness>>

NextSeq == RecordStep

SpecSeq == InitSeq /\ [][NextSeq]_vars

----------------------------------------------------------------------------
(* Steps and states the properties speak about *)

\* a step that ends a tick
TickEnds == iteration' = iteration + 1

\* a step that starts a tick's scan
ScanStarts == pc = "sleep" /\ pc' = "walk"

\* the paths a scan result reports as changed or new against the stored one
Affected(previous, current) ==
    {p \in DOMAIN current :
        IF p \in DOMAIN previous THEN previous[p] # current[p] ELSE TRUE}

\* current is previous with some paths deleted and nothing else touched
DeletionOnly(previous, current) ==
    /\ DOMAIN current \subseteq DOMAIN previous
    /\ DOMAIN current # DOMAIN previous
    /\ \A p \in DOMAIN current : current[p] = previous[p]

----------------------------------------------------------------------------
(* C1 *)

\* C1, as stated: a tick invokes the Runner iff its scan differs from the
\* stored snapshot, and a scan that no filesystem mutation separates from
\* the scan before it equals the stored snapshot.
C1_AsStated ==
    [][/\ TickEnds => ((runs_in_tick >= 1) <=> (new_file_list # file_list))
       /\ (WalkDone /\ ~mut_prev /\ touched = {})
             => new_file_list = file_list]_vars

\* C1, amended: a tick that runs to its end invokes the Runner iff its scan
\* differs from the stored snapshot (other keys, or another modification
\* time for a key), the Runner is only ever running for a scan that
\* differs, and when the filesystem has not been mutated since the last
\* full scan of an earlier tick began (or since the scan of __init__) the
\* scan equals the stored snapshot, so that the Runner is not invoked.
C1_RunnerIffChanged ==
    [][/\ TickEnds => ((runs_in_tick = 1) <=> (new_file_list # file_list))
       /\ pc = "running" => new_file_list # file_list
       /\ (WalkDone /\ clean) => new_file_list = file_list]_vars

\* a quick scan of an undisturbed tree has ended a tick without the Runner,
\* after an earlier tick ran it
C1_Witness ==
    /\ pc = "sleep"
    /\ iteration >= 2
    /\ clean
    /\ quick
    /\ runs_in_tick = 0
    /\ hot_top # EmptyDict

----------------------------------------------------------------------------
(* C2 *)

----------------------------------------------------------------------------
(* C3 *)

\* the count of p after the files of list have been recorded
CountAfter(hot, affected, p) ==
    (IF p \in DOMAIN hot THEN hot[p] ELSE 0) + (IF p \in affected THEN 1 ELSE 0)

\* C3: in a changed tick the changed and new paths are counted in hot_top
\* first (while the Runner has not been invoked and the stored snapshot is
\* untouched), then the Runner is invoked once, with the command computed
\* at startup, and the stored snapshot is replaced by the scan result only
\* when the Runner has returned; a tick ends with the stored snapshot equal
\* to its scan result.
C3_ChangedTickOrder ==
    [][/\ (hot_top' # hot_top \/ (pc # "run" /\ pc' = "run"))
            => /\ pc = "walk" /\ pc' = "run"
               /\ runs_in_tick = 0 /\ runs_in_tick' = 0
               /\ file_list' = file_list
               /\ Range(changed' \o new') = Affected(file_list, new_file_list)
               /\ \A p \in DOMAIN hot_top' :
                     hot_top'[p] =
                        CountAfter(hot_top, Affected(file_list, new_file_list), p)
               /\ Cardinality(DOMAIN hot_top \cup Affected(file_list, new_file_list))
                     <= hot_top_limit
                    => DOMAIN hot_top' =
                         DOMAIN hot_top \cup Affected(file_list, new_file_list)
       /\ (runs_in_tick' # runs_in_tick /\ ~ScanStarts)
            => /\ pc = "run" /\ pc' = "running"
               /\ runs_in_tick = 0 /\ runs_in_tick' = 1
               /\ run_arg' = cmd
               /\ hot_top' = hot_top
               /\ file_list' = file_list
       /\ file_list' # file_list
            => /\ pc = "running" /\ pc' = "sleep"
               /\ runs_in_tick = 1
               /\ file_list' = new_file_list
       /\ pc = "running" => run_arg = cmd
       /\ cmd' = cmd
       /\ TickEnds => file_list' = new_file_list']_vars

\* the Runner is running: the change is in hot_top, the stored snapshot is
\* still the old one
C3_Witness ==
    /\ pc = "running"
    /\ run_arg = cmd
    /\ runs_in_tick = 1
    /\ Affected(file_list, new_file_list) # {}
    /\ Affected(file_list, new_file_list) \subseteq DOMAIN hot_top
    /\ file_list # new_file_list

----------------------------------------------------------------------------
(* C4 *)

\* C4: a file that disappears between the scan's isfile() and getmtime()
\* raises no error: no tick ends the loop with an error.
C4_NoScanError == pc # "crashed"

----------------------------------------------------------------------------
(* C5 *)

\* no element twice
NoDuplicates(list) == Cardinality(Range(list)) = Len(list)

\* C5: for the stored snapshot (previous) and the scan result (current)
\* the loop compares, changed is exactly the paths of both snapshots whose
\* modification times differ, new is exactly the paths of current that
\* previous lacks, each path is listed once and the lists are disjoint.
C5_DiffLists ==
    pc \in {"run", "running"}
        => /\ Range(changed) =
                {p \in DOMAIN file_list \cap DOMAIN new_file_list :
                    file_list[p] # new_file_list[p]}
           /\ Range(new) = DOMAIN new_file_list \ DOMAIN file_list
           /\ Range(changed) \cap Range(new) = {}
           /\ NoDuplicates(changed) /\ NoDuplicates(new)

\* a scan found one path modified and another one created
C5_Witness ==
    /\ pc = "run"
    /\ changed # <<>>
    /\ new # <<>>

----------------------------------------------------------------------------
(* C6 *)

\* C6: when the scan result is the stored snapshot minus some deleted
\* paths, changed and new are both empty, and still the tick is a changed
\* one: it ends with the Runner invoked once and the stored snapshot
\* replaced by the scan result.
C6_DeletionTriggersRun ==
    [][/\ (pc \in {"run", "running"} /\ DeletionOnly(file_list, new_file_list))
            => changed = <<>> /\ new = <<>>
       /\ (TickEnds /\ DeletionOnly(file_list, new_file_list))
            => /\ pc = "running"
               /\ runs_in_tick = 1
               /\ file_list' = new_file_list
               /\ DOMAIN file_list' # DOMAIN file_list]_vars

\* the Runner runs for a scan that only lost paths
C6_Witness ==
    /\ pc = "running"
    /\ DeletionOnly(file_list, new_file_list)
    /\ changed = <<>>
    /\ new = <<>>

----------------------------------------------------------------------------
(* C7 *)

\* the result of a finished quick scan: the paths outside hot_top are
\* those of the stored snapshot, with its modification times; a hot path
\* that nothing touched during the scan has the modification time of the
\* file, and is absent when the file is
QuickScanResult ==
    (WalkDone /\ quick)
        => /\ DOMAIN new_file_list \ DOMAIN hot_top
                = DOMAIN file_list \ DOMAIN hot_top
           /\ \A p \in DOMAIN file_list \ DOMAIN hot_top :
                 new_file_list[p] = file_list[p]
           /\ \A h \in DOMAIN hot_top \ touched :
                 IF h \in DOMAIN fs
                 THEN h \in DOMAIN new_file_list /\ new_file_list[h] = fs[h]
                 ELSE h \notin DOMAIN new_file_list

\* C7: a quick scan re-checks the hot paths only: a hot path that is a
\* file gets the file's modification time, a hot path that is gone is left
\* out, every other path of the stored snapshot is carried over unchanged,
\* and the scan does not change the stored snapshot.
C7_QuickScanFrame ==
    [][/\ QuickScanResult'
       /\ pc = "walk" => file_list' = file_list]_vars

\* a quick scan has dropped a deleted hot path, refreshed nothing else and
\* carried a path that is not hot over
C7_Witness ==
    /\ WalkDone
    /\ quick
    /\ \E h \in DOMAIN hot_top \ touched :
          h \in DOMAIN file_list /\ h \notin DOMAIN fs
    /\ DOMAIN file_list \ DOMAIN hot_top # {}

----------------------------------------------------------------------------
(* C8 *)

\* C8: after the hot_top update of a changed tick, hence at the start of
\* every tick, hot_top holds at most 20 paths.
C8_HotTopBounded == Cardinality(DOMAIN hot_top) <= 20

\* the update has left a full cache and has evicted a path it had counted
C8_Witness ==
    /\ pc = "run"
    /\ Cardinality(DOMAIN hot_top) = 20
    /\ \E p \in Range(changed \o new) : p \notin DOMAIN hot_top

----------------------------------------------------------------------------
(* C9 *)

\* C9: when the update evicts, it evicts the lowest counts: no evicted
\* path had, after the counting, a count strictly greater than the count
\* of a path that stays.
C9_LowestEvicted ==
    [][\A e \in (DOMAIN hot_top \cup Range(changed' \o new')) \ DOMAIN hot_top' :
          \A r \in DOMAIN hot_top' :
             CountAfter(hot_top, Range(changed' \o new'), e) <= hot_top'[r]]_vars

\* an eviction between unequal counts: a counted path is out, a path with a
\* higher count stays
C9_Witness ==
    /\ pc = "run"
    /\ \E p \in Range(changed \o new) :
          /\ p \notin DOMAIN hot_top
          /\ \E r \in DOMAIN hot_top : hot_top[r] >= 2

----------------------------------------------------------------------------
(* C10 *)

\* the changes of p recorded so far
Observed(p) == Cardinality({i \in 1..iteration : feed[i] = p})

\* C10: with two places in the cache, after the changes a, b, c, a, a
\* (paths 1, 2, 3, 1, 1) the cache holds a whatever way ties go; and the
\* cache always holds the most often changed paths: no path outside it has
\* more observed changes than a path inside it.
C10_KeepsMostChanged ==
    /\ (iteration = 5 /\ SubSeq(feed, 1, 5) = <<1, 2, 3, 1, 1>>)
          => 1 \in DOMAIN hot_top
    /\ \A p \in DOMAIN hot_top : \A q \in (1..SeqPaths) \ DOMAIN hot_top :
          Observed(q) <= Observed(p)

----------------------------------------------------------------------------
(* C11 *)

\* the ignore pattern keeps the path out of a full scan: a directory on the
\* way is pruned, or the file's name matches
IgnoredPath(p) == ~Entered(names[p].dirs) \/ NameIgnored(p)

\* the path was a regular file at some moment since the scan began
ExistedInScan(p) == p \in DOMAIN fs \/ p \in touched

\* the path did not exist at some moment since the scan began
AbsentInScan(p) == p \notin DOMAIN fs \/ p \in gone

\* the PathSnapshot invariant, for the paths of S
PathSnapshot(snapshot, S) ==
    \A p \in S :
       /\ p \in DOMAIN snapshot => ExistedInScan(p)
       /\ p \notin DOMAIN snapshot => (IgnoredPath(p) \/ AbsentInScan(p))

\* C11 as stated: every snapshot a scan returns, full or quick, satisfies
\* the PathSnapshot invariant: each key was a regular file during the scan,
\* each path left out is ignored or did not exist during the scan.
C11_AsStated ==
    [][(~WalkDone /\ WalkDone') => PathSnapshot(new_file_list, Paths)']_vars

\* C11: the snapshot of a full scan satisfies the PathSnapshot invariant;
\* the snapshot of a quick scan satisfies it for the paths of hot_top, and
\* has every other path exactly when the stored snapshot has it.
C11_FullScanSnapshot ==
    [][(~WalkDone /\ WalkDone')
          => (IF quick
              THEN /\ PathSnapshot(new_file_list, DOMAIN hot_top)
                   /\ \A p \in Paths \ DOMAIN hot_top :
                         p \in DOMAIN new_file_list <=> p \in DOMAIN file_list
              ELSE PathSnapshot(new_file_list, Paths))']_vars

\* the full scan of a later tick has returned: it has a source file, and
\* has left out the compiled file and the version-control file, which exist
C11_Witness ==
    /\ WalkDone
    /\ ~quick
    /\ ticks > 1
    /\ DOMAIN fs = Paths
    /\ DOMAIN new_file_list = Paths \ {CompiledFile, HiddenFile}
    /\ new_file_list # EmptyDict

----------------------------------------------------------------------------
(* C12 *)

\* the path lies beneath a directory the ignore pattern matches
BeneathIgnoredDir(p) ==
    \E k \in 1..Len(names[p].dirs) :
        IgnoreSearch(ignore, Join(NormRoot(SubSeq(names[p].dirs, 1, k - 1)),
                                  names[p].dirs[k]))

----------------------------------------------------------------------------
(* C13 *)

\* C13: while a Runner invocation is in progress the loop is inside
\* subprocess.call: it does not sleep, no scan starts, no second invocation
\* starts, and the invocation in progress stays the same until it returns;
\* an invocation only starts when none is in progress.
C13_LoopWaitsForRunner ==
    [][/\ (run_arg # NoCmd /\ pc \in LoopStates) => pc = "running"
       /\ run_arg # NoCmd
            => /\ ~ScanStarts
               /\ ticks' = ticks
               /\ runs_in_tick' = runs_in_tick
               /\ run_arg' \in {run_arg, NoCmd}
               /\ pc' = "sleep" => run_arg' = NoCmd
       /\ runs_in_tick' = runs_in_tick + 1 => run_arg = NoCmd]_vars

\* the Runner is in progress in a tick after the first, and the tree has
\* been changed again since the tick's scan began
C13_Witness ==
    /\ pc = "running"
    /\ run_arg = cmd
    /\ cmd # NoCmd
    /\ ticks > 1
    /\ touched # {}

----------------------------------------------------------------------------
(* C14 *)

\* the rule is a negation: it starts with '!'
Negated(r) == r # "" /\ SubSeq(r, 1, 1) = "!"

\* the pattern fires on the name of the path, as a rule of the compiled
\* pattern fires
Fires(pattern, p) == IgnoreSearch({pattern}, names[p].name)

\* some negation of the rules fires on the path
Rescued(p) ==
    \E r \in ignore : Negated(r) /\ Fires(SubSeq(r, 2, Len(r)), p)

\* C14: a path is ignored by the compiled pattern iff a rule that is not a
\* negation fires on it and no negation does; and a file a negation fires
\* on is a key of the full scan's snapshot, also when another rule fires.
C14_NegationIncludes ==
    (WalkDone /\ ~quick)
       => \A p \in Paths :
             /\ NameIgnored(p)
                   <=> /\ \E r \in ignore : ~Negated(r) /\ Fires(r, p)
                       /\ ~Rescued(p)
             /\ (Rescued(p) /\ Entered(names[p].dirs) /\ p \in DOMAIN fs)
                   => p \in DOMAIN new_file_list

----------------------------------------------------------------------------
(* C15 *)

\* the path of the tree with these directories and this name
PathNamed(dirs, name) ==
    CHOOSE p \in Paths : names[p] = [dirs |-> dirs, name |-> name]

\* C15: with the rule /root.txt (and the rules of IGNORE), the snapshot of
\* a full scan leaves out root.txt of the root directory and has
\* sub/root.txt; and a file the scan comes to is left out exactly when the
\* pattern matches its full path.
C15_AnchoredRule ==
    (WalkDone /\ ~quick /\ ignore = CompileRules("", <<"/root.txt\n">>))
       => /\ PathNamed(<<>>, "root.txt") \notin DOMAIN new_file_list
          /\ PathNamed(<<"sub">>, "root.txt") \in DOMAIN new_file_list
          /\ \A p \in Listing(fs) :
                p \notin DOMAIN new_file_list
                   <=> IgnoreSearch(ignore, FullPath(names[p]))

----------------------------------------------------------------------------
(* C16 *)

\* C16: when the root is not a directory, the construction of the Watcher
\* fails before the loop is entered: the process goes from its start to an
\* end with a non-zero exit status, the loop never begins a tick and the
\* Runner is never invoked.
C16_InvalidRootFailsAtStartup ==
    ~root_isdir
       => /\ pc \in {"start", "crashed"}
          /\ pc = "crashed" => (exit_code # {} /\ 0 \notin exit_code)
          /\ pc = "start" => exit_code = {}
          /\ ticks = 0
          /\ iteration = 0
          /\ runs_in_tick = 0
          /\ run_arg = NoCmd

\* the start on a root that is not a directory has failed
C16_Witness == ~root_isdir /\ pc = "crashed" /\ exit_code = {1}

----------------------------------------------------------------------------
(* C17 *)

\* C17: the loop has no end of its own: the process leaves the loop's
\* states only by an interrupt, which every loop state allows and which
\* ends the process with exit status 0; after it no scan starts and the
\* Runner is not invoked.
C17_OnlyInterruptEndsLoop ==
    [][/\ (pc \in LoopStates /\ pc' \notin LoopStates)
            => (pc' = "exited" /\ exit_code' = {0})
       /\ pc \in LoopStates => ENABLED Interrupt
       /\ pc = "exited"
            => /\ pc' = "exited"
               /\ ticks' = ticks
               /\ runs_in_tick' = runs_in_tick
               /\ run_arg' = run_arg]_vars

----------------------------------------------------------------------------
(* C18 *)

\* the file exists and the stored snapshot does not have it with its
\* modification time
Pending(p) ==
    /\ p \in DOMAIN fs
    /\ IF p \in DOMAIN file_list THEN file_list[p] # fs[p] ELSE TRUE

\* C18: when a source file is created, or has another modification time
\* than the stored snapshot says, then the Runner is invoked (at the latest
\* in the tick of the next full scan) or the difference ends.
C18_ChangeLeadsToRun ==
    \A p \in Files : [](Pending(p) => <>(pc = "running" \/ ~Pending(p)))

----------------------------------------------------------------------------
(* C19 *)

\* hot_top holds 20 paths and has counted each of them twice or more
FullAndWarm(hot) ==
    /\ Cardinality(DOMAIN hot) = 20
    /\ \A p \in DOMAIN hot : hot[p] >= 2

\* C19: once hot_top holds 20 paths whose counts are all 2 or more, no step
\* changes its key set and no count goes down (so it stays that way): a
\* path outside it that changes is counted 1 and is dropped by the same
\* update.
C19_FullCacheFrozen ==
    [][FullAndWarm(hot_top)
          => /\ DOMAIN hot_top' = DOMAIN hot_top
             /\ \A p \in DOMAIN hot_top : hot_top'[p] >= hot_top[p]
             /\ FullAndWarm(hot_top')]_vars

\* an update on such a cache has counted paths inside and outside it: the
\* cache holds 20 paths, each of them was counted twice or more before the
\* update, and a changed path is not in it
C19_Witness ==
    /\ pc = "run"
    /\ Cardinality(DOMAIN hot_top) = 20
    /\ \A p \in DOMAIN hot_top :
          hot_top[p] >= (IF p \in Range(changed \o new) THEN 3 ELSE 2)
    /\ \E p \in Range(changed \o new) : p \in DOMAIN hot_top
    /\ \E p \in Range(changed \o new) : p \notin DOMAIN hot_top

----------------------------------------------------------------------------
(* C20 *)

\* C20: hot_top only changes in the update of a tick whose scan differs
\* from the stored snapshot, and the stored snapshot only when the Runner
\* of such a tick returns: a tick whose scan equals the stored snapshot
\* ends with both as they were, having invoked nothing.  The update counts
\* each changed or new path once more and leaves the other counts, and no
\* entry of hot_top has a count below 1.
C20_FrameAndCounts ==
    [][/\ (TickEnds /\ ~SnapshotsDiffer(new_file_list, file_list))
            => /\ file_list' = file_list
               /\ hot_top' = hot_top
               /\ runs_in_tick' = 0
               /\ run_arg' = NoCmd
       /\ hot_top' # hot_top
            => (WalkDone /\ SnapshotsDiffer(new_file_list, file_list))
       /\ file_list' # file_list
            => (pc = "running" /\ file_list' = new_file_list)
       /\ (pc = "walk" /\ pc' = "run")
            => \A p \in DOMAIN hot_top \cup Affected(file_list, new_file_list) :
                  p \in DOMAIN hot_top'
                     => hot_top'[p] =
                           CountAfter(hot_top,
                                      Affected(file_list, new_file_list), p)
       /\ \A p \in DOMAIN hot_top' : hot_top'[p] >= 1]_vars

\* a path has been counted in two ticks, and a tick has gone by since
C20_Witness ==
    /\ pc = "sleep"
    /\ iteration >= 3
    /\ \E p \in DOMAIN hot_top : hot_top[p] = 2

====
